---- MODULE Spec2Model ----
(***************************************************************************)
(* Model of the Internet Connection Monitor sketch                         *)
(* (src/arduino-reset/arduino-reset.ino): the system state machine         *)
(* (NORMAL / FAILED_SIGNAL / COOLDOWN), the non-blocking ping state        *)
(* machine, the two pulse timers and the four output pins.                 *)
(*                                                                         *)
(* Time.  Every duration of the sketch is a multiple of 1000 ms.  The      *)
(* model keeps the order of the seven durations but scales them to a few   *)
(* time units each, and scales the period of the unsigned long millis()    *)
(* counter (2^32) to MILLIS_MOD units, so that the reachable states can    *)
(* be enumerated.  All timestamp arithmetic is unsigned, modulo            *)
(* MILLIS_MOD, as in the sketch.                                           *)
(*                                                                         *)
(* millis() is read once in each of manageSystemState, managePingProcess,  *)
(* handleSuccess, manageRecoveryPulse and managePingingPulse; the counter  *)
(* may advance between two reads of one pass of loop().                    *)
(***************************************************************************)
EXTENDS Integers, Naturals, Sequences, FiniteSets, TLC

(* ------------------------- configuration ------------------------------ *)
numTargets == 4
PING_INTERVAL == 3
FAILURE_THRESHOLD == 4
FAILURE_SIGNAL_DURATION == 3
FAILURE_COOLDOWN_DURATION == 4
RECOVERY_PULSE_DURATION == 2
PINGING_PULSE_DURATION == 1
HTTP_TIMEOUT == 2

(* period of the millis() counter (unsigned long), scaled *)
MILLIS_MOD == 12

(* largest advance of millis() between the last read of one pass of      *)
(* loop() and the first read of the next                                   *)
MaxAdvance == 1
(* number of times, per run, that millis() advances between two reads of   *)
(* the same pass                                                           *)
MaxDrift == 0
(* the run is followed for MaxElapsed time units after setup() *)
MaxElapsed == 12

LOW == FALSE
HIGH == TRUE

STATE_NORMAL == "STATE_NORMAL"
STATE_FAILED_SIGNAL == "STATE_FAILED_SIGNAL"
STATE_COOLDOWN == "STATE_COOLDOWN"
SystemState == {STATE_NORMAL, STATE_FAILED_SIGNAL, STATE_COOLDOWN}

PING_IDLE == "PING_IDLE"
PING_CONNECTING == "PING_CONNECTING"
PING_SENDING == "PING_SENDING"
PING_READING == "PING_READING"
PING_DONE == "PING_DONE"
PingState == {PING_IDLE, PING_CONNECTING, PING_SENDING, PING_READING, PING_DONE}

(* value of a per-pass output that was not produced in the pass *)
NONE == -1

(* the three "-> Failure: ..." lines of managePingProcess, and none *)
NO_FAILURE == "-"
CONNECT_TIMEOUT == "Connection attempt timed out."
RESPONSE_TIMEOUT == "HTTP response timeout."
BAD_STATUS == "Received a non-2xx/3xx status code."

VARIABLES
  phase,                        \* "setup" before setup() has run, then "loop"
  clock,                        \* value of the last millis() read
  currentState,
  pingState,
  currentTargetIndex,
  lastSuccessfulConnectionTime,
  failureStateStartTime,
  cooldownStateStartTime,
  recoveryPulseStartTime,
  pingingPulseStartTime,
  pingStateStartTime,
  pingTransactionStartTime,
  recoveryPulseActive,
  pingingPulseActive,
  pinFailureState,              \* FAILURE_STATE_PIN
  pinFailureSignal,             \* FAILURE_SIGNAL_PIN
  pinRecoverySignal,            \* RECOVERY_SIGNAL_PIN
  pinPinging,                   \* PINGING_PIN
  clientOpen,                   \* the EthernetClient holds a connection
  pass,                         \* what the last pass of loop() read and printed
  hist                          \* history of the run (not program state)

vars == <<phase, clock, currentState, pingState, currentTargetIndex,
          lastSuccessfulConnectionTime, failureStateStartTime,
          cooldownStateStartTime, recoveryPulseStartTime,
          pingingPulseStartTime, pingStateStartTime,
          pingTransactionStartTime, recoveryPulseActive, pingingPulseActive,
          pinFailureState, pinFailureSignal, pinRecoverySignal, pinPinging,
          clientOpen, pass, hist>>

(* unsigned long arithmetic *)
UAdd(a, b) == (a + b) % MILLIS_MOD
USub(a, b) == (a - b + MILLIS_MOD * 2) % MILLIS_MOD

(* the program state as one record, threaded through the functions of a pass *)
State ==
  [ currentState |-> currentState,
    pingState |-> pingState,
    currentTargetIndex |-> currentTargetIndex,
    lastSuccessfulConnectionTime |-> lastSuccessfulConnectionTime,
    failureStateStartTime |-> failureStateStartTime,
    cooldownStateStartTime |-> cooldownStateStartTime,
    recoveryPulseStartTime |-> recoveryPulseStartTime,
    pingingPulseStartTime |-> pingingPulseStartTime,
    pingStateStartTime |-> pingStateStartTime,
    pingTransactionStartTime |-> pingTransactionStartTime,
    recoveryPulseActive |-> recoveryPulseActive,
    pingingPulseActive |-> pingingPulseActive,
    pinFailureState |-> pinFailureState,
    pinFailureSignal |-> pinFailureSignal,
    pinRecoverySignal |-> pinRecoverySignal,
    pinPinging |-> pinPinging,
    clientOpen |-> clientOpen,
    succeeded |-> FALSE,        \* handleSuccess ran in this pass
    recovered |-> FALSE,        \* ... and took the recovery branch
    failure |-> NO_FAILURE,     \* "-> Failure: ..." line printed in this pass
    duration |-> NONE,          \* "Response time" printed in this pass
    outageDuration |-> NONE ]   \* "Outage lasted for" printed in this pass

(* ------------------------- the functions ------------------------------ *)

(* mutant: the outage is declared after the duration of the signal *)
failureThresholdExceeded_m2(s, now) ==
  USub(now, s.lastSuccessfulConnectionTime) >= FAILURE_SIGNAL_DURATION

(* mutant: the deadline is computed by addition and compared with now,     *)
(* which is not safe when the counter wraps                                *)
failureThresholdExceeded_m1(s, now) ==
  now >= s.lastSuccessfulConnectionTime + FAILURE_THRESHOLD

(* the three timed guards of manageSystemState *)
failureThresholdExceeded(s, now) ==
  USub(now, s.lastSuccessfulConnectionTime) >= FAILURE_THRESHOLD

(* mutant: the signal is timed with the duration of the cooldown *)
failureSignalEnded_m2(s, now) ==
  USub(now, s.failureStateStartTime) >= FAILURE_COOLDOWN_DURATION

(* mutant: the signal duration is measured from the stale cooldown timer *)
failureSignalEnded_m1(s, now) ==
  USub(now, s.cooldownStateStartTime) >= FAILURE_SIGNAL_DURATION

failureSignalEnded(s, now) ==
  USub(now, s.failureStateStartTime) >= FAILURE_SIGNAL_DURATION

(* mutant: the cooldown ends one unit late (> instead of >=) *)
cooldownTimedOut_m1(s, now) ==
  USub(now, s.cooldownStateStartTime) > FAILURE_COOLDOWN_DURATION

cooldownTimedOut(s, now) ==
  USub(now, s.cooldownStateStartTime) >= FAILURE_COOLDOWN_DURATION

(* mutant: the cooldown timeout starts the next failure signal itself      *)
(* instead of returning to STATE_NORMAL to re-evaluate                     *)
manageSystemState_m3(s, now) ==
  CASE s.currentState = STATE_NORMAL ->
         IF failureThresholdExceeded(s, now)
         THEN [s EXCEPT !.currentState = STATE_FAILED_SIGNAL,
                        !.failureStateStartTime = now,
                        !.pinFailureState = HIGH,
                        !.pinFailureSignal = HIGH]
         ELSE s
    [] s.currentState = STATE_FAILED_SIGNAL ->
         IF failureSignalEnded(s, now)
         THEN [s EXCEPT !.currentState = STATE_COOLDOWN,
                        !.cooldownStateStartTime = now,
                        !.pinFailureSignal = LOW]
         ELSE s
    [] s.currentState = STATE_COOLDOWN ->
         IF cooldownTimedOut(s, now)
         THEN [s EXCEPT !.currentState = STATE_FAILED_SIGNAL,
                        !.failureStateStartTime = now,
                        !.pinFailureSignal = HIGH]
         ELSE s

(* mutant: the cooldown timeout lowers the pin but stays in STATE_COOLDOWN *)
manageSystemState_m2(s, now) ==
  CASE s.currentState = STATE_NORMAL ->
         IF USub(now, s.lastSuccessfulConnectionTime) >= FAILURE_THRESHOLD
         THEN [s EXCEPT !.currentState = STATE_FAILED_SIGNAL,
                        !.failureStateStartTime = now,
                        !.pinFailureState = HIGH,
                        !.pinFailureSignal = HIGH]
         ELSE s
    [] s.currentState = STATE_FAILED_SIGNAL ->
         IF USub(now, s.failureStateStartTime) >= FAILURE_SIGNAL_DURATION
         THEN [s EXCEPT !.currentState = STATE_COOLDOWN,
                        !.cooldownStateStartTime = now,
                        !.pinFailureSignal = LOW]
         ELSE s
    [] s.currentState = STATE_COOLDOWN ->
         IF USub(now, s.cooldownStateStartTime) >= FAILURE_COOLDOWN_DURATION
         THEN [s EXCEPT !.pinFailureState = LOW]
         ELSE s

(* mutant: the cooldown timeout forgets to lower the failure-state pin *)
manageSystemState_m1(s, now) ==
  CASE s.currentState = STATE_NORMAL ->
         IF USub(now, s.lastSuccessfulConnectionTime) >= FAILURE_THRESHOLD
         THEN [s EXCEPT !.currentState = STATE_FAILED_SIGNAL,
                        !.failureStateStartTime = now,
                        !.pinFailureState = HIGH,
                        !.pinFailureSignal = HIGH]
         ELSE s
    [] s.currentState = STATE_FAILED_SIGNAL ->
         IF USub(now, s.failureStateStartTime) >= FAILURE_SIGNAL_DURATION
         THEN [s EXCEPT !.currentState = STATE_COOLDOWN,
                        !.cooldownStateStartTime = now,
                        !.pinFailureSignal = LOW]
         ELSE s
    [] s.currentState = STATE_COOLDOWN ->
         IF USub(now, s.cooldownStateStartTime) >= FAILURE_COOLDOWN_DURATION
         THEN [s EXCEPT !.currentState = STATE_NORMAL]
         ELSE s

manageSystemState(s, now) ==
  CASE s.currentState = STATE_NORMAL ->
         IF failureThresholdExceeded(s, now)
         THEN [s EXCEPT !.currentState = STATE_FAILED_SIGNAL,
                        !.failureStateStartTime = now,
                        !.pinFailureState = HIGH,
                        !.pinFailureSignal = HIGH]
         ELSE s
    [] s.currentState = STATE_FAILED_SIGNAL ->
         IF failureSignalEnded(s, now)
         THEN [s EXCEPT !.currentState = STATE_COOLDOWN,
                        !.cooldownStateStartTime = now,
                        !.pinFailureSignal = LOW]
         ELSE s
    [] s.currentState = STATE_COOLDOWN ->
         IF cooldownTimedOut(s, now)
         THEN [s EXCEPT !.currentState = STATE_NORMAL,
                        !.pinFailureState = LOW]
         ELSE s

(* mutant: the last success time is overwritten before the outage is computed *)
handleSuccess_m1(s, duration, now) ==
  LET r == IF s.currentState = STATE_FAILED_SIGNAL \/ s.currentState = STATE_COOLDOWN
           THEN [s EXCEPT !.outageDuration = USub(now, now),
                          !.currentState = STATE_NORMAL,
                          !.pinFailureState = LOW,
                          !.pinFailureSignal = LOW,
                          !.recoveryPulseActive = TRUE,
                          !.pinRecoverySignal = HIGH,
                          !.recoveryPulseStartTime = now,
                          !.recovered = TRUE]
           ELSE s
  IN [r EXCEPT !.succeeded = TRUE,
               !.duration = duration,
               !.lastSuccessfulConnectionTime = now]

(* mutant: the recovery leaves the failure-signal pin as it was *)
handleSuccess_m2(s, duration, now) ==
  LET r == IF s.currentState = STATE_FAILED_SIGNAL \/ s.currentState = STATE_COOLDOWN
           THEN [s EXCEPT !.outageDuration = USub(now, s.lastSuccessfulConnectionTime),
                          !.currentState = STATE_NORMAL,
                          !.pinFailureState = LOW,
                          !.recoveryPulseActive = TRUE,
                          !.pinRecoverySignal = HIGH,
                          !.recoveryPulseStartTime = now,
                          !.recovered = TRUE]
           ELSE s
  IN [r EXCEPT !.succeeded = TRUE,
               !.duration = duration,
               !.lastSuccessfulConnectionTime = now]

(* mutant: the outage is measured from the entry to STATE_FAILED_SIGNAL *)
handleSuccess_m4(s, duration, now) ==
  LET r == IF s.currentState = STATE_FAILED_SIGNAL \/ s.currentState = STATE_COOLDOWN
           THEN [s EXCEPT !.outageDuration = USub(now, s.failureStateStartTime),
                          !.currentState = STATE_NORMAL,
                          !.pinFailureState = LOW,
                          !.pinFailureSignal = LOW,
                          !.recoveryPulseActive = TRUE,
                          !.pinRecoverySignal = HIGH,
                          !.recoveryPulseStartTime = now,
                          !.recovered = TRUE]
           ELSE s
  IN [r EXCEPT !.succeeded = TRUE,
               !.duration = duration,
               !.lastSuccessfulConnectionTime = now]

(* mutant: the last success time is refreshed only by a recovery *)
handleSuccess_m3(s, duration, now) ==
  LET r == IF s.currentState = STATE_FAILED_SIGNAL \/ s.currentState = STATE_COOLDOWN
           THEN [s EXCEPT !.outageDuration = USub(now, s.lastSuccessfulConnectionTime),
                          !.currentState = STATE_NORMAL,
                          !.pinFailureState = LOW,
                          !.pinFailureSignal = LOW,
                          !.recoveryPulseActive = TRUE,
                          !.pinRecoverySignal = HIGH,
                          !.recoveryPulseStartTime = now,
                          !.recovered = TRUE,
                          !.lastSuccessfulConnectionTime = now]
           ELSE s
  IN [r EXCEPT !.succeeded = TRUE,
               !.duration = duration]

handleSuccess(s, duration, now) ==
  LET r == IF s.currentState = STATE_FAILED_SIGNAL \/ s.currentState = STATE_COOLDOWN
           THEN [s EXCEPT !.outageDuration = USub(now, s.lastSuccessfulConnectionTime),
                          !.currentState = STATE_NORMAL,
                          !.pinFailureState = LOW,
                          !.pinFailureSignal = LOW,
                          !.recoveryPulseActive = TRUE,
                          !.pinRecoverySignal = HIGH,
                          !.recoveryPulseStartTime = now,
                          !.recovered = TRUE]
           ELSE s
  IN [r EXCEPT !.succeeded = TRUE,
               !.duration = duration,
               !.lastSuccessfulConnectionTime = now]

(* mutant: the interval is measured from the start of the previous attempt *)
pingDue_m2(s, now) ==
  /\ s.currentState # STATE_FAILED_SIGNAL
  /\ USub(now, s.pingTransactionStartTime) >= PING_INTERVAL

(* mutant: a new attempt is started in every system state *)
pingDue_m1(s, now) ==
  USub(now, s.pingStateStartTime) >= PING_INTERVAL

(* the guard of PING_IDLE: not in the failure signal, interval elapsed *)
pingDue(s, now) ==
  /\ s.currentState # STATE_FAILED_SIGNAL
  /\ USub(now, s.pingStateStartTime) >= PING_INTERVAL

(* mutant: the cursor is advanced without the modulo *)
nextTarget_m1(i) == i + 1

(* the target after target i *)
nextTarget(i) == (i + 1) % numTargets

(* mutant: the connection is never closed *)
stopClient_m1(s) == s

(* client.stop() *)
stopClient(s) == [s EXCEPT !.clientOpen = FALSE]

(* mutant: the timeouts are measured from the start of the attempt *)
httpTimedOut_m3(s, now) ==
  USub(now, s.pingTransactionStartTime) >= HTTP_TIMEOUT

(* mutant: the deadline is computed by addition and compared with now,     *)
(* which is not safe when the counter wraps                                *)
httpTimedOut_m2(s, now) ==
  now >= s.pingStateStartTime + HTTP_TIMEOUT

(* mutant: the timeouts fire one unit late (> instead of >=) *)
httpTimedOut_m1(s, now) ==
  USub(now, s.pingStateStartTime) > HTTP_TIMEOUT

(* the timeout test of PING_CONNECTING and of PING_READING *)
httpTimedOut(s, now) ==
  USub(now, s.pingStateStartTime) >= HTTP_TIMEOUT

(* the duration handed to handleSuccess by the two-pin revision of the     *)
(* sketch, whose prober is otherwise the one modelled here, without the    *)
(* pinging pulse and without pingTransactionStartTime:                     *)
(*   now - (pingStateStartTime - (pingStateStartTime -                     *)
(*                                cooldownStateStartTime))                 *)
(* in unsigned arithmetic                                                  *)
totalRequestTime(s, now) ==
  USub(now, USub(s.pingStateStartTime,
                 USub(s.pingStateStartTime, s.cooldownStateStartTime)))

(* mutant: the duration stops at the entry to PING_READING: it covers      *)
(* connecting and sending, not reading                                     *)
transactionDuration_m2(s, now) ==
  USub(s.pingStateStartTime, s.pingTransactionStartTime)

(* mutant: the duration is measured from the entry to PING_READING *)
transactionDuration_m1(s, now) ==
  USub(now, s.pingStateStartTime)

(* the duration handed to handleSuccess *)
transactionDuration(s, now) ==
  USub(now, s.pingTransactionStartTime)

(* mutant: any status line counts as a sign of life: a non-2xx/3xx status *)
(* is printed as a failure but refreshes the last success time            *)
managePingProcess_m1(s, now, connects, available, statusOk, nowH) ==
  CASE s.pingState = PING_IDLE ->
         IF pingDue(s, now)
         THEN [s EXCEPT !.pingingPulseActive = TRUE,
                        !.pinPinging = HIGH,
                        !.pingingPulseStartTime = now,
                        !.pingState = PING_CONNECTING,
                        !.pingStateStartTime = now,
                        !.pingTransactionStartTime = now]
         ELSE s
    [] s.pingState = PING_CONNECTING ->
         IF connects
         THEN [s EXCEPT !.clientOpen = TRUE,
                        !.pingState = PING_SENDING,
                        !.pingStateStartTime = now]
         ELSE IF httpTimedOut(s, now)
         THEN [stopClient(s) EXCEPT !.failure = CONNECT_TIMEOUT,
                                    !.pingState = PING_DONE,
                                    !.pingStateStartTime = now]
         ELSE s
    [] s.pingState = PING_SENDING ->
         [s EXCEPT !.pingState = PING_READING,
                   !.pingStateStartTime = now]
    [] s.pingState = PING_READING ->
         IF available
         THEN LET r == IF statusOk
                       THEN handleSuccess(s, transactionDuration(s, now), nowH)
                       ELSE [s EXCEPT !.failure = BAD_STATUS,
                                      !.lastSuccessfulConnectionTime = now]
              IN [r EXCEPT !.pingState = PING_DONE,
                           !.pingStateStartTime = now]
         ELSE IF httpTimedOut(s, now)
         THEN [s EXCEPT !.failure = RESPONSE_TIMEOUT,
                        !.pingState = PING_DONE,
                        !.pingStateStartTime = now]
         ELSE s
    [] s.pingState = PING_DONE ->
         [stopClient(s) EXCEPT !.currentTargetIndex = nextTarget(s.currentTargetIndex),
                               !.pingState = PING_IDLE,
                               !.pingStateStartTime = now]

(* case PING_IDLE: wait for the interval, then arm the pinging pulse and   *)
(* start the attempt                                                       *)
pingIdle(s, now) ==
  IF pingDue(s, now)
  THEN [s EXCEPT !.pingingPulseActive = TRUE,
                 !.pinPinging = HIGH,
                 !.pingingPulseStartTime = now,
                 !.pingState = PING_CONNECTING,
                 !.pingStateStartTime = now,
                 !.pingTransactionStartTime = now]
  ELSE s

(* mutant: an established connection counts as a successful connection    *)
(* and refreshes the last success time                                     *)
pingConnecting_m2(s, now, connects) ==
  IF connects
  THEN [s EXCEPT !.clientOpen = TRUE,
                 !.lastSuccessfulConnectionTime = now,
                 !.pingState = PING_SENDING,
                 !.pingStateStartTime = now]
  ELSE IF httpTimedOut(s, now)
  THEN [stopClient(s) EXCEPT !.failure = CONNECT_TIMEOUT,
                             !.pingState = PING_DONE,
                             !.pingStateStartTime = now]
  ELSE s

(* mutant: the request is sent in the pass in which the connection is      *)
(* established, without a pass in PING_SENDING                             *)
pingConnecting_m1(s, now, connects) ==
  IF connects
  THEN [s EXCEPT !.clientOpen = TRUE,
                 !.pingState = PING_READING,
                 !.pingStateStartTime = now]
  ELSE IF httpTimedOut(s, now)
  THEN [stopClient(s) EXCEPT !.failure = CONNECT_TIMEOUT,
                             !.pingState = PING_DONE,
                             !.pingStateStartTime = now]
  ELSE s

(* case PING_CONNECTING: connect() is tried first, then the timeout *)
pingConnecting(s, now, connects) ==
  IF connects
  THEN [s EXCEPT !.clientOpen = TRUE,
                 !.pingState = PING_SENDING,
                 !.pingStateStartTime = now]
  ELSE IF httpTimedOut(s, now)
  THEN [stopClient(s) EXCEPT !.failure = CONNECT_TIMEOUT,
                             !.pingState = PING_DONE,
                             !.pingStateStartTime = now]
  ELSE s

(* case PING_SENDING: the request is written, the response is awaited *)
pingSending(s, now) ==
  [s EXCEPT !.pingState = PING_READING,
            !.pingStateStartTime = now]

(* case PING_READING: available() is tried first, then the timeout *)
pingReading(s, now, available, statusOk, nowH) ==
  IF available
  THEN LET r == IF statusOk
                THEN handleSuccess(s, transactionDuration(s, now), nowH)
                ELSE [s EXCEPT !.failure = BAD_STATUS]
       IN [r EXCEPT !.pingState = PING_DONE,
                    !.pingStateStartTime = now]
  ELSE IF httpTimedOut(s, now)
  THEN [s EXCEPT !.failure = RESPONSE_TIMEOUT,
                 !.pingState = PING_DONE,
                 !.pingStateStartTime = now]
  ELSE s

(* mutant: the end of the attempt switches the pinging pulse off *)
pingDone_m1(s, now) ==
  [stopClient(s) EXCEPT !.currentTargetIndex = nextTarget(s.currentTargetIndex),
                        !.pingingPulseActive = FALSE,
                        !.pinPinging = LOW,
                        !.pingState = PING_IDLE,
                        !.pingStateStartTime = now]

(* case PING_DONE: close the connection, advance the cursor, restart the   *)
(* interval timer                                                          *)
pingDone(s, now) ==
  [stopClient(s) EXCEPT !.currentTargetIndex = nextTarget(s.currentTargetIndex),
                        !.pingState = PING_IDLE,
                        !.pingStateStartTime = now]

(* connects:   what client.connect() returns in this pass                  *)
(* available:  what client.available() returns in this pass                *)
(* statusOk:   the status line read contains "HTTP/1.1 2" or "HTTP/1.1 3"  *)
(* nowH:       what millis() returns inside handleSuccess                  *)
managePingProcess(s, now, connects, available, statusOk, nowH) ==
  CASE s.pingState = PING_IDLE -> pingIdle(s, now)
    [] s.pingState = PING_CONNECTING -> pingConnecting(s, now, connects)
    [] s.pingState = PING_SENDING -> pingSending(s, now)
    [] s.pingState = PING_READING -> pingReading(s, now, available, statusOk, nowH)
    [] s.pingState = PING_DONE -> pingDone(s, now)

(* mutant: the expired recovery pulse clears the flag but leaves the pin HIGH *)
manageRecoveryPulse_m1(s, now) ==
  IF s.recoveryPulseActive
     /\ USub(now, s.recoveryPulseStartTime) >= RECOVERY_PULSE_DURATION
  THEN [s EXCEPT !.recoveryPulseActive = FALSE]
  ELSE s

(* mutant: the recovery pulse ends one unit late (> instead of >=) *)
manageRecoveryPulse_m2(s, now) ==
  IF s.recoveryPulseActive
     /\ USub(now, s.recoveryPulseStartTime) > RECOVERY_PULSE_DURATION
  THEN [s EXCEPT !.recoveryPulseActive = FALSE,
                 !.pinRecoverySignal = LOW]
  ELSE s

manageRecoveryPulse(s, now) ==
  IF s.recoveryPulseActive
     /\ USub(now, s.recoveryPulseStartTime) >= RECOVERY_PULSE_DURATION
  THEN [s EXCEPT !.recoveryPulseActive = FALSE,
                 !.pinRecoverySignal = LOW]
  ELSE s

managePingingPulse(s, now) ==
  IF s.pingingPulseActive
     /\ USub(now, s.pingingPulseStartTime) >= PINGING_PULSE_DURATION
  THEN [s EXCEPT !.pingingPulseActive = FALSE,
                 !.pinPinging = LOW]
  ELSE s

(* the four tasks of one pass of loop(), each with its own read of         *)
(* millis(): nowS, nowP, (nowH in handleSuccess,) nowR, nowG               *)
tasks(s, nowS, nowP, nowH, nowR, nowG, connects, available, statusOk) ==
  managePingingPulse(
    manageRecoveryPulse(
      managePingProcess(manageSystemState(s, nowS),
                        nowP, connects, available, statusOk, nowH),
      nowR),
    nowG)

(* ------------------------- history ------------------------------------ *)

(* advance of the history record over one pass: s0 before the pass, s1     *)
(* after manageSystemState, s4 at the end of the pass; passed is the time  *)
(* the pass ends after the previous one, after the time it ends after the  *)
(* read of millis() in handleSuccess                                       *)
histAfter(h, s0, s1, s4, steady, passed, drift, after) ==
  [ open |-> h.open,
    elapsed |-> h.elapsed + passed,
    drifted |-> h.drifted + drift,
    uniform |-> h.uniform /\ steady /\ ~s4.succeeded,
    outageOpen |-> IF s4.succeeded THEN FALSE
                   ELSE IF s0.currentState = STATE_NORMAL
                           /\ s1.currentState = STATE_FAILED_SIGNAL THEN TRUE
                   ELSE h.outageOpen,
    completed |-> IF s0.pingState = PING_DONE /\ s4.pingState = PING_IDLE
                  THEN h.completed + 1
                  ELSE h.completed,
    signalled |-> \/ h.signalled
                  \/ /\ s0.currentState = STATE_NORMAL
                     /\ s1.currentState = STATE_FAILED_SIGNAL,
    sinceSuccess |-> IF s4.succeeded THEN after
                     ELSE h.sinceSuccess + passed ]

(* ------------------------- actions ------------------------------------ *)

Init ==
  /\ phase = "setup"
  /\ clock = 0
  /\ currentState = STATE_NORMAL
  /\ pingState = PING_IDLE
  /\ currentTargetIndex = 0
  /\ lastSuccessfulConnectionTime = 0
  /\ failureStateStartTime = 0
  /\ cooldownStateStartTime = 0
  /\ recoveryPulseStartTime = 0
  /\ pingingPulseStartTime = 0
  /\ pingStateStartTime = 0
  /\ pingTransactionStartTime = 0
  /\ recoveryPulseActive = FALSE
  /\ pingingPulseActive = FALSE
  /\ pinFailureState = LOW
  /\ pinFailureSignal = LOW
  /\ pinRecoverySignal = LOW
  /\ pinPinging = LOW
  /\ clientOpen = FALSE
  /\ pass = [nowS |-> NONE, nowP |-> NONE, nowH |-> NONE, nowR |-> NONE,
             afterSupervisor |-> STATE_NORMAL, succeeded |-> FALSE,
             failure |-> NO_FAILURE, recovered |-> FALSE, duration |-> NONE,
             outageDuration |-> NONE]
  /\ hist = [open |-> TRUE, elapsed |-> 0, drifted |-> 0, uniform |-> FALSE,
             outageOpen |-> FALSE, completed |-> 0, signalled |-> FALSE,
             sinceSuccess |-> 0]

(* mutant: the backdating of the ping timer is clamped at 0 instead of     *)
(* being left to wrap                                                      *)
setup_m1(t, d) ==
  /\ phase = "setup"
  /\ phase' = "loop"
  /\ pinFailureState' = LOW
  /\ pinFailureSignal' = LOW
  /\ pinRecoverySignal' = LOW
  /\ pinPinging' = LOW
  /\ lastSuccessfulConnectionTime' = t
  /\ pingStateStartTime' = IF UAdd(t, d) >= PING_INTERVAL
                           THEN UAdd(t, d) - PING_INTERVAL
                           ELSE 0
  /\ clock' = UAdd(t, d)
  /\ hist' = [hist EXCEPT !.uniform = (t = 0 /\ d = 0),
                           !.sinceSuccess = d]
  /\ UNCHANGED <<currentState, pingState, currentTargetIndex,
                 failureStateStartTime, cooldownStateStartTime,
                 recoveryPulseStartTime, pingingPulseStartTime,
                 pingTransactionStartTime, recoveryPulseActive,
                 pingingPulseActive, clientOpen, pass>>

(* setup(): the pins are driven LOW, then the two timers are initialised   *)
(* from two reads of millis(); t is the first read, d the advance between  *)
(* the two reads.  The DHCP retry loop makes the duration of setup()       *)
(* unbounded, so t ranges over the whole period of the counter.            *)
setup(t, d) ==
  /\ phase = "setup"
  /\ phase' = "loop"
  /\ pinFailureState' = LOW
  /\ pinFailureSignal' = LOW
  /\ pinRecoverySignal' = LOW
  /\ pinPinging' = LOW
  /\ lastSuccessfulConnectionTime' = t
  /\ pingStateStartTime' = USub(UAdd(t, d), PING_INTERVAL)
  /\ clock' = UAdd(t, d)
  /\ hist' = [hist EXCEPT !.uniform = (t = 0 /\ d = 0),
                           !.sinceSuccess = d]
  /\ UNCHANGED <<currentState, pingState, currentTargetIndex,
                 failureStateStartTime, cooldownStateStartTime,
                 recoveryPulseStartTime, pingingPulseStartTime,
                 pingTransactionStartTime, recoveryPulseActive,
                 pingingPulseActive, clientOpen, pass>>

(* the program state and the observations left by a pass: s1 after         *)
(* manageSystemState, s4 at the end of the pass                            *)
endOfPass(s1, s4, nowS, nowP, nowH, nowR, nowG) ==
  /\ clock' = nowG
  /\ currentState' = s4.currentState
  /\ pingState' = s4.pingState
  /\ currentTargetIndex' = s4.currentTargetIndex
  /\ lastSuccessfulConnectionTime' = s4.lastSuccessfulConnectionTime
  /\ failureStateStartTime' = s4.failureStateStartTime
  /\ cooldownStateStartTime' = s4.cooldownStateStartTime
  /\ recoveryPulseStartTime' = s4.recoveryPulseStartTime
  /\ pingingPulseStartTime' = s4.pingingPulseStartTime
  /\ pingStateStartTime' = s4.pingStateStartTime
  /\ pingTransactionStartTime' = s4.pingTransactionStartTime
  /\ recoveryPulseActive' = s4.recoveryPulseActive
  /\ pingingPulseActive' = s4.pingingPulseActive
  /\ pinFailureState' = s4.pinFailureState
  /\ pinFailureSignal' = s4.pinFailureSignal
  /\ pinRecoverySignal' = s4.pinRecoverySignal
  /\ pinPinging' = s4.pinPinging
  /\ clientOpen' = s4.clientOpen
  /\ pass' = [nowS |-> nowS, nowP |-> nowP,
              nowH |-> IF s4.succeeded THEN nowH ELSE NONE,
              nowR |-> nowR,
              afterSupervisor |-> s1.currentState,
              succeeded |-> s4.succeeded,
              failure |-> s4.failure,
              recovered |-> s4.recovered,
              duration |-> s4.duration,
              outageDuration |-> s4.outageDuration]

(* one pass of loop().  adv is the advance of millis() since the end of    *)
(* the previous pass; d1..d4 are the advances between the reads of         *)
(* millis() in manageSystemState, managePingProcess, handleSuccess,        *)
(* manageRecoveryPulse and managePingingPulse.                             *)
loop(adv, d1, d2, d3, d4, connects, available, statusOk) ==
  /\ phase = "loop"
  /\ hist.open
  /\ hist.elapsed + adv + d1 + d2 + d3 + d4 <= MaxElapsed
  /\ hist.drifted + d1 + d2 + d3 + d4 <= MaxDrift
  /\ LET nowS == UAdd(clock, adv)
         nowP == UAdd(nowS, d1)
         nowH == UAdd(nowP, d2)
         nowR == UAdd(nowH, d3)
         nowG == UAdd(nowR, d4)
     IN \E s1 \in {manageSystemState(State, nowS)} :
        \E s4 \in {managePingingPulse(
                     manageRecoveryPulse(
                       managePingProcess(s1, nowP, connects, available, statusOk, nowH),
                       nowR),
                     nowG)} :
        /\ endOfPass(s1, s4, nowS, nowP, nowH, nowR, nowG)
        /\ hist' = histAfter(hist, State, s1, s4,
                             adv = 1 /\ d1 + d2 + d3 + d4 = 0 /\ nowG # 0,
                             adv + d1 + d2 + d3 + d4, d1 + d2 + d3 + d4,
                             d3 + d4)
  /\ UNCHANGED phase

(* between two consecutive reads of millis() in one pass the counter ticks *)
(* over at most once; MaxDrift such ticks are followed in one run          *)
Drifts ==
  {d \in [1..4 -> 0..1] : d[1] + d[2] + d[3] + d[4] <= MaxDrift - hist.drifted}

StartTimes == {0}
Setup ==
  \E t \in StartTimes, d \in 0..MaxDrift : setup(t, d)

(* the transport is consulted only where the sketch calls it: connect() in *)
(* PING_CONNECTING, available() and the status line in PING_READING       *)
Loop ==
  \E adv \in 0..MaxAdvance, d \in Drifts,
     connects \in IF pingState = PING_CONNECTING THEN BOOLEAN ELSE {FALSE},
     available \in IF pingState = PING_READING THEN BOOLEAN ELSE {FALSE} :
  \E statusOk \in IF available THEN BOOLEAN ELSE {FALSE} :
       loop(adv, d[1], d[2], d[3], d[4], connects, available, statusOk)

Next == Setup \/ Loop

Spec == Init /\ [][Next]_vars

(* ------------------------- the unbounded run --------------------------- *)

(* the history of a run that is followed beyond the horizon is not kept *)
histClosed ==
  [open |-> FALSE, elapsed |-> 0, drifted |-> 0, uniform |-> FALSE,
   outageOpen |-> FALSE, completed |-> 0, signalled |-> FALSE,
   sinceSuccess |-> 0]

(* one pass of loop() of an outage that lasts for ever: the transport      *)
(* never delivers a 2xx/3xx status line again.  The pass is followed       *)
(* without a horizon; its reads of millis() return the same value.         *)
loopOn(adv, connects, available) ==
  /\ phase = "loop"
  /\ LET now == UAdd(clock, adv)
     IN \E s1 \in {manageSystemState(State, now)} :
        \E s4 \in {managePingingPulse(
                     manageRecoveryPulse(
                       managePingProcess(s1, now, connects, available, FALSE, now),
                       now),
                     now)} :
        endOfPass(s1, s4, now, now, now, now, now)
  /\ hist' = histClosed
  /\ UNCHANGED phase

(* a pass that finds millis() advanced by one unit since the previous pass *)
Tick ==
  \E connects \in IF pingState = PING_CONNECTING THEN BOOLEAN ELSE {FALSE},
     available \in IF pingState = PING_READING THEN BOOLEAN ELSE {FALSE} :
       loopOn(1, connects, available)

(* a pass within the same millisecond as the previous one *)
Spin ==
  \E connects \in IF pingState = PING_CONNECTING THEN BOOLEAN ELSE {FALSE},
     available \in IF pingState = PING_READING THEN BOOLEAN ELSE {FALSE} :
       loopOn(0, connects, available)

(* a pass of the time before the outage, when probes may still succeed:    *)
(* the outage begins within FAILURE_THRESHOLD of setup()                   *)
Early ==
  \E adv \in 0..MaxAdvance,
     connects \in IF pingState = PING_CONNECTING THEN BOOLEAN ELSE {FALSE},
     available \in IF pingState = PING_READING THEN BOOLEAN ELSE {FALSE} :
  \E statusOk \in IF available THEN BOOLEAN ELSE {FALSE} :
       /\ hist.elapsed < FAILURE_THRESHOLD
       /\ loop(adv, 0, 0, 0, 0, connects, available, statusOk)

(* a start of the sketch, continued by an outage without end *)
NextOn == Setup \/ Early \/ Tick \/ Spin

(* setup() returns (DHCP succeeds), loop() is called again and again and   *)
(* millis() keeps advancing                                                *)
SpecOn == Init /\ [][NextOn]_vars /\ WF_vars(Setup) /\ WF_vars(Tick)

(* ------------------------- the skewed run ------------------------------ *)

(* mutant: loop() calls managePingProcess before manageSystemState *)
skewed_m1(d1, d2, d3, d4, connects, available, statusOk) ==
  /\ phase = "loop"
  /\ hist.open
  /\ hist.elapsed + 1 + d1 + d2 + d3 + d4 <= MaxElapsed
  /\ hist.drifted + d1 + d2 + d3 + d4 <= MaxDrift + 1
  /\ LET nowS == UAdd(clock, 1)
         nowP == UAdd(nowS, d1)
         nowH == UAdd(nowP, d2)
         nowR == UAdd(nowH, d3)
         nowG == UAdd(nowR, d4)
     IN \E s1 \in {manageSystemState(
                     managePingProcess(State, nowP, connects, available,
                                       statusOk, nowH),
                     nowS)} :
        \E s4 \in {managePingingPulse(manageRecoveryPulse(s1, nowR), nowG)} :
        /\ endOfPass(s1, s4, nowS, nowP, nowH, nowR, nowG)
        /\ hist' = histAfter(hist, State, s1, s4,
                             d1 + d2 + d3 + d4 = 0 /\ nowG # 0,
                             1 + d1 + d2 + d3 + d4, d1 + d2 + d3 + d4,
                             d3 + d4)
  /\ UNCHANGED phase

(* one pass of loop(), one time unit after the previous one, in which      *)
(* millis() ticks over between the reads of the tasks: d1..d4 as in loop.  *)
(* One tick more than MaxDrift is followed in a run.                       *)
skewed(d1, d2, d3, d4, connects, available, statusOk) ==
  /\ phase = "loop"
  /\ hist.open
  /\ hist.elapsed + 1 + d1 + d2 + d3 + d4 <= MaxElapsed
  /\ hist.drifted + d1 + d2 + d3 + d4 <= MaxDrift + 1
  /\ LET nowS == UAdd(clock, 1)
         nowP == UAdd(nowS, d1)
         nowH == UAdd(nowP, d2)
         nowR == UAdd(nowH, d3)
         nowG == UAdd(nowR, d4)
     IN \E s1 \in {manageSystemState(State, nowS)} :
        \E s4 \in {managePingingPulse(
                     manageRecoveryPulse(
                       managePingProcess(s1, nowP, connects, available, statusOk, nowH),
                       nowR),
                     nowG)} :
        /\ endOfPass(s1, s4, nowS, nowP, nowH, nowR, nowG)
        /\ hist' = histAfter(hist, State, s1, s4,
                             d1 + d2 + d3 + d4 = 0 /\ nowG # 0,
                             1 + d1 + d2 + d3 + d4, d1 + d2 + d3 + d4,
                             d3 + d4)
  /\ UNCHANGED phase

Skew ==
  \E d \in [1..4 -> 0..1],
     connects \in IF pingState = PING_CONNECTING THEN BOOLEAN ELSE {FALSE},
     available \in IF pingState = PING_READING THEN BOOLEAN ELSE {FALSE} :
  \E statusOk \in IF available THEN BOOLEAN ELSE {FALSE} :
       skewed(d[1], d[2], d[3], d[4], connects, available, statusOk)

NextSkew == Setup \/ Skew

(* a run in which the reads of millis() within a pass differ *)
SpecSkew == Init /\ [][NextSkew]_vars

(* ------------------------- the start ----------------------------------- *)

(* setup() returns at any value of millis(): the DHCP retries make its     *)
(* duration unbounded                                                      *)
Boot ==
  \E t \in 0..(MILLIS_MOD - 1), d \in 0..MaxDrift : setup(t, d)

NextBoot == Boot \/ Early

(* the passes of loop() up to FAILURE_THRESHOLD after setup(), from every  *)
(* value of millis()                                                       *)
SpecBoot == Init /\ [][NextBoot]_vars

(* ------------------------- types -------------------------------------- *)

Time == 0..(MILLIS_MOD - 1)

TypeOK ==
  /\ phase \in {"setup", "loop"}
  /\ clock \in Time
  /\ currentState \in SystemState
  /\ pingState \in PingState
  /\ currentTargetIndex \in 0..(numTargets - 1)
  /\ lastSuccessfulConnectionTime \in Time
  /\ failureStateStartTime \in Time
  /\ cooldownStateStartTime \in Time
  /\ recoveryPulseStartTime \in Time
  /\ pingingPulseStartTime \in Time
  /\ pingStateStartTime \in Time
  /\ pingTransactionStartTime \in Time
  /\ recoveryPulseActive \in BOOLEAN
  /\ pingingPulseActive \in BOOLEAN
  /\ pinFailureState \in BOOLEAN
  /\ pinFailureSignal \in BOOLEAN
  /\ pinRecoverySignal \in BOOLEAN
  /\ pinPinging \in BOOLEAN
  /\ clientOpen \in BOOLEAN

(* ------------------------- properties --------------------------------- *)

(* C1: after every pass of loop() the failure-state pin is HIGH iff the    *)
(* system state is not STATE_NORMAL, and the failure-signal pin is HIGH    *)
(* only while the system state is STATE_FAILED_SIGNAL.                     *)
C1_FailurePins ==
  /\ pinFailureState = HIGH <=> currentState # STATE_NORMAL
  /\ pinFailureSignal = HIGH => currentState = STATE_FAILED_SIGNAL

(* both non-normal states have been left behind by a pass: the cooldown    *)
(* state with only the failure-state pin HIGH                              *)
C1_Witness ==
  /\ currentState = STATE_COOLDOWN
  /\ pinFailureState = HIGH
  /\ pinFailureSignal = LOW
  /\ pass.succeeded = FALSE

(* C9: the recovery pin is HIGH iff recoveryPulseActive and the pinging    *)
(* pin is HIGH iff pingingPulseActive.                                     *)
C9_PinsFollowFlags ==
  /\ pinRecoverySignal = HIGH <=> recoveryPulseActive
  /\ pinPinging = HIGH <=> pingingPulseActive

C9_Witness ==
  /\ pinRecoverySignal = HIGH
  /\ recoveryPulseActive
  /\ pinPinging = LOW
  /\ ~pingingPulseActive

(* C2: with lastSuccessfulConnectionTime = 0, one pass per time unit and   *)
(* no successful probe, the system state is STATE_FAILED_SIGNAL from now = *)
(* FAILURE_THRESHOLD, STATE_COOLDOWN from FAILURE_THRESHOLD +              *)
(* FAILURE_SIGNAL_DURATION, and STATE_NORMAL again at FAILURE_THRESHOLD +  *)
(* FAILURE_SIGNAL_DURATION + FAILURE_COOLDOWN_DURATION, never earlier and  *)
(* never later.                                                            *)
C2_Timeline ==
  (hist.uniform /\ clock <= FAILURE_THRESHOLD + FAILURE_SIGNAL_DURATION
                            + FAILURE_COOLDOWN_DURATION)
  => currentState =
       IF clock < FAILURE_THRESHOLD THEN STATE_NORMAL
       ELSE IF clock < FAILURE_THRESHOLD + FAILURE_SIGNAL_DURATION
            THEN STATE_FAILED_SIGNAL
       ELSE IF clock < FAILURE_THRESHOLD + FAILURE_SIGNAL_DURATION
                       + FAILURE_COOLDOWN_DURATION
            THEN STATE_COOLDOWN
       ELSE STATE_NORMAL

(* the uniform run has just come back to STATE_NORMAL *)
C2_Witness ==
  /\ hist.uniform
  /\ lastSuccessfulConnectionTime = 0
  /\ clock = FAILURE_THRESHOLD + FAILURE_SIGNAL_DURATION + FAILURE_COOLDOWN_DURATION
  /\ pass.nowS = clock
  /\ currentState = STATE_NORMAL
  /\ failureStateStartTime = FAILURE_THRESHOLD
  /\ cooldownStateStartTime = FAILURE_THRESHOLD + FAILURE_SIGNAL_DURATION

(* handleSuccess was called in the last pass while the system state was    *)
(* STATE_FAILED_SIGNAL or STATE_COOLDOWN                                   *)
SuccessInOutage(p) ==
  /\ p.succeeded
  /\ p.afterSupervisor \in {STATE_FAILED_SIGNAL, STATE_COOLDOWN}

(* C3: when a probe succeeds while the system state is STATE_FAILED_SIGNAL *)
(* or STATE_COOLDOWN, at the end of that pass the state is STATE_NORMAL,   *)
(* both failure pins are LOW, the recovery pulse is active with its pin    *)
(* HIGH and its start time is the time of the success, and the reported    *)
(* outage is that time minus the last success time of before the pass.     *)
C3_Recovery ==
  [][SuccessInOutage(pass')
     => /\ currentState' = STATE_NORMAL
        /\ pinFailureState' = LOW
        /\ pinFailureSignal' = LOW
        /\ recoveryPulseActive'
        /\ pinRecoverySignal' = HIGH
        /\ recoveryPulseStartTime' = pass'.nowH
        /\ pass'.outageDuration = USub(pass'.nowH, lastSuccessfulConnectionTime)
        /\ lastSuccessfulConnectionTime' = pass'.nowH]_vars

(* a success has ended a failure signal: the outage reported is not zero *)
C3_Witness ==
  /\ pass.succeeded
  /\ pass.afterSupervisor = STATE_FAILED_SIGNAL
  /\ currentState = STATE_NORMAL
  /\ recoveryPulseActive
  /\ pass.outageDuration >= FAILURE_THRESHOLD

(* C4: whenever a probe succeeds and it is the first success since the     *)
(* system last entered STATE_FAILED_SIGNAL, the recovery pulse is started  *)
(* in that pass, also when the cooldown times out in the same pass.        *)
C4_RecoveryAlwaysPulsed ==
  [][(pass'.succeeded
      /\ (hist.outageOpen \/ pass'.afterSupervisor = STATE_FAILED_SIGNAL))
     => /\ recoveryPulseActive'
        /\ pinRecoverySignal' = HIGH
        /\ recoveryPulseStartTime' = pass'.nowH]_vars

C6_Gate ==
  [][phase = "loop"
     => /\ (pingState = PING_IDLE /\ pass'.afterSupervisor = STATE_FAILED_SIGNAL)
           => pingState' = PING_IDLE
        /\ (pingState = PING_IDLE /\ pass'.afterSupervisor # STATE_FAILED_SIGNAL)
           => (pingState' = PING_CONNECTING
               <=> USub(pass'.nowP, pingStateStartTime) >= PING_INTERVAL)
        /\ (pingState = PING_CONNECTING)
           => /\ pingState' \in {PING_CONNECTING, PING_SENDING, PING_DONE}
              /\ USub(pass'.nowP, pingStateStartTime) >= HTTP_TIMEOUT
                 => pingState' # PING_CONNECTING
        /\ (pingState = PING_SENDING) => pingState' = PING_READING
        /\ (pingState = PING_READING)
           => /\ pingState' \in {PING_READING, PING_DONE}
              /\ USub(pass'.nowP, pingStateStartTime) >= HTTP_TIMEOUT
                 => pingState' = PING_DONE
        /\ (pingState = PING_DONE) => pingState' = PING_IDLE]_vars

(* an attempt in flight has reached PING_READING during the failure signal *)
C6_Witness ==
  /\ currentState = STATE_FAILED_SIGNAL
  /\ pass.afterSupervisor = STATE_FAILED_SIGNAL
  /\ pingState = PING_READING
  /\ pingStateStartTime = pass.nowP
  /\ USub(pass.nowP, failureStateStartTime) > 0

(* C7: the cursor stays in 0..numTargets-1, changes only on the            *)
(* PING_DONE -> PING_IDLE transition, by +1 modulo numTargets, and is      *)
(* therefore the number of completed probes modulo numTargets.             *)
C7_Cursor ==
  /\ [](/\ currentTargetIndex \in 0..(numTargets - 1)
        /\ currentTargetIndex = hist.completed % numTargets)
  /\ [][IF pingState = PING_DONE /\ pingState' = PING_IDLE
        THEN /\ currentTargetIndex' = (currentTargetIndex + 1) % numTargets
             /\ currentTargetIndex' # currentTargetIndex
        ELSE currentTargetIndex' = currentTargetIndex]_vars

(* numTargets probes have completed and the cursor is back at the start *)
C7_Witness ==
  /\ hist.completed = numTargets
  /\ currentTargetIndex = 0
  /\ pingState = PING_IDLE

(* C8: a pulse is still active at the end of a pass exactly when less than *)
(* its duration has elapsed at the read of millis() of its timer function; *)
(* it is started with the time of its activation.                          *)
C8_Pulses ==
  /\ [](/\ recoveryPulseActive
           => USub(pass.nowR, recoveryPulseStartTime) < RECOVERY_PULSE_DURATION
        /\ pingingPulseActive
           => USub(clock, pingingPulseStartTime) < PINGING_PULSE_DURATION)
  /\ [][/\ (recoveryPulseActive /\ ~recoveryPulseActive')
           => USub(pass'.nowR, recoveryPulseStartTime) >= RECOVERY_PULSE_DURATION
        /\ (recoveryPulseActive /\ recoveryPulseActive')
           => USub(pass'.nowR, recoveryPulseStartTime') < RECOVERY_PULSE_DURATION
        /\ pass'.recovered
           => /\ recoveryPulseStartTime' = pass'.nowH
              /\ recoveryPulseActive'
                 <=> USub(pass'.nowR, pass'.nowH) < RECOVERY_PULSE_DURATION
        /\ (pingingPulseActive /\ ~pingingPulseActive')
           => USub(clock', pingingPulseStartTime') >= PINGING_PULSE_DURATION
        /\ (pingState = PING_IDLE /\ pingState' = PING_CONNECTING)
           => /\ pingingPulseStartTime' = pass'.nowP
              /\ pingingPulseActive'
                 <=> USub(clock', pass'.nowP) < PINGING_PULSE_DURATION
        /\ ~(pingState = PING_IDLE /\ pingState' = PING_CONNECTING)
           => pingingPulseStartTime' = pingingPulseStartTime
        /\ ~pass'.recovered
           => recoveryPulseStartTime' = recoveryPulseStartTime]_vars

(* the recovery pulse is in the last time unit of its window: a pass has   *)
(* run since it was started and it is still HIGH                           *)
C8_Witness ==
  /\ recoveryPulseActive
  /\ pinRecoverySignal = HIGH
  /\ ~pass.recovered
  /\ USub(pass.nowR, recoveryPulseStartTime) = RECOVERY_PULSE_DURATION - 1

C11_LastSuccess ==
  [][phase = "loop"
     => /\ pass'.succeeded
           => /\ lastSuccessfulConnectionTime' = pass'.nowH
              /\ pass'.recovered
                 => pass'.outageDuration
                      = USub(lastSuccessfulConnectionTime', lastSuccessfulConnectionTime)
        /\ ~pass'.succeeded
           => lastSuccessfulConnectionTime' = lastSuccessfulConnectionTime]_vars

(* a success in STATE_NORMAL has moved the last success time *)
C11_Witness ==
  /\ pass.succeeded
  /\ pass.afterSupervisor = STATE_NORMAL
  /\ ~pass.recovered
  /\ lastSuccessfulConnectionTime = pass.nowH
  /\ lastSuccessfulConnectionTime > 0

(* C12: if from some pass on no probe succeeds, the system state is        *)
(* STATE_FAILED_SIGNAL, with the failure-signal pin HIGH, infinitely often *)
(* and STATE_COOLDOWN infinitely often, and so is never left for good in   *)
(* any of the three states.                                                *)
C12_KeepsSignalling ==
  <>[](~pass.succeeded)
  => /\ []<>(currentState = STATE_FAILED_SIGNAL /\ pinFailureSignal = HIGH)
     /\ []<>(currentState = STATE_COOLDOWN)
     /\ []<>(currentState = STATE_NORMAL)

(* the failure signal is asserted again after a cooldown has timed out,    *)
(* in an outage that follows a successful probe                            *)
C12_Witness ==
  /\ ~hist.open
  /\ lastSuccessfulConnectionTime # 0
  /\ cooldownStateStartTime # 0
  /\ pass.afterSupervisor = STATE_FAILED_SIGNAL
  /\ currentState = STATE_FAILED_SIGNAL
  /\ failureStateStartTime = pass.nowS
  /\ USub(failureStateStartTime, cooldownStateStartTime) >= FAILURE_COOLDOWN_DURATION
  /\ USub(cooldownStateStartTime, lastSuccessfulConnectionTime)
       >= FAILURE_THRESHOLD + FAILURE_SIGNAL_DURATION

(* the program state s as it would be had millis() been r units further   *)
(* when every timestamp was taken                                          *)
Shifted(s, r) ==
  [s EXCEPT !.lastSuccessfulConnectionTime = UAdd(@, r),
            !.failureStateStartTime = UAdd(@, r),
            !.cooldownStateStartTime = UAdd(@, r),
            !.recoveryPulseStartTime = UAdd(@, r),
            !.pingingPulseStartTime = UAdd(@, r),
            !.pingStateStartTime = UAdd(@, r),
            !.pingTransactionStartTime = UAdd(@, r)]

(* the outputs of a pass: the program state it leaves and what it printed *)
Outcome(s, p) ==
  [s EXCEPT !.succeeded = p.succeeded,
            !.failure = p.failure,
            !.recovered = p.recovered,
            !.duration = p.duration,
            !.outageDuration = p.outageDuration]

(* C17: every comparison of the sketch depends on the elapsed time only,   *)
(* not on where the counter wraps: whatever pass the program makes, the    *)
(* same pass made with every timestamp and every read of millis() shifted  *)
(* by r (so that the counter wraps r units earlier, between any stored     *)
(* timestamp and now for some r) takes the same branches, leaves the same  *)
(* state and prints the same durations.                                    *)
C17_WrapSafe ==
  [][phase = "loop"
     => \A r \in Time :
          tasks(Shifted(State, r),
                UAdd(pass'.nowS, r), UAdd(pass'.nowP, r),
                UAdd(IF pass'.succeeded THEN pass'.nowH ELSE pass'.nowP, r),
                UAdd(pass'.nowR, r), UAdd(clock', r),
                pingState = PING_CONNECTING /\ pingState' = PING_SENDING,
                pass'.succeeded \/ pass'.failure = BAD_STATUS,
                pass'.succeeded)
            = Shifted(Outcome(State', pass'), r)]_vars

(* the failure signal has ended exactly FAILURE_SIGNAL_DURATION after it   *)
(* began, the counter having wrapped in between                            *)
C17_Witness ==
  /\ pass.afterSupervisor = STATE_COOLDOWN
  /\ currentState = STATE_COOLDOWN
  /\ cooldownStateStartTime = pass.nowS
  /\ pass.nowS < failureStateStartTime
  /\ USub(pass.nowS, failureStateStartTime) = FAILURE_SIGNAL_DURATION

(* C13: the connection is closed whenever the prober is in PING_IDLE or    *)
(* PING_CONNECTING; it is opened only by a pass that finds the prober in   *)
(* PING_CONNECTING; an attempt starts only from PING_IDLE; PING_IDLE is    *)
(* entered only from PING_DONE, by a pass that closes the connection.      *)
C13_OneAttempt ==
  /\ [](pingState \in {PING_IDLE, PING_CONNECTING} => ~clientOpen)
  /\ [][/\ (~clientOpen /\ clientOpen')
           => (pingState = PING_CONNECTING /\ pingState' = PING_SENDING)
        /\ (pingState # PING_CONNECTING /\ pingState' = PING_CONNECTING)
           => (pingState = PING_IDLE /\ ~clientOpen)
        /\ (pingState # PING_IDLE /\ pingState' = PING_IDLE)
           => (pingState = PING_DONE /\ ~clientOpen')]_vars

(* a second attempt is under way after one that had opened the connection *)
C13_Witness ==
  /\ hist.completed = 1
  /\ pass.succeeded = FALSE
  /\ lastSuccessfulConnectionTime > 0
  /\ pingState = PING_CONNECTING
  /\ ~clientOpen

(* in a run of one pass per time unit, the pass about to be made reads a   *)
(* 2xx/3xx status line at the first poll of an attempt that started at     *)
(* time start and whose connection was established by the pass one unit    *)
(* later (PING_READING was then entered by the pass after that one)        *)
PromptSuccess(start) ==
  /\ hist.uniform
  /\ pingState = PING_READING
  /\ pingTransactionStartTime = start
  /\ pingStateStartTime = UAdd(start, 2)
  /\ pass'.nowS = UAdd(clock, 1)
  /\ pass'.nowP = pass'.nowS
  /\ pass'.nowP = UAdd(pingStateStartTime, 1)
  /\ pass'.succeeded
  /\ pass'.nowH = pass'.nowP

(* C14 as stated: with one pass per time unit an attempt that enters       *)
(* PING_CONNECTING at t and connects at t+1 reads its 2xx status at t+2:   *)
(* the success has latency 2 and lastSuccessfulConnectionTime = t+2.       *)
C14_ReadsAfterTwo ==
  [][\A t \in Time :
       PromptSuccess(t)
       => /\ pass'.nowP = UAdd(t, 2)
          /\ pass'.duration = 2
          /\ lastSuccessfulConnectionTime' = UAdd(t, 2)]_vars

(* C14 amended: the attempt that enters PING_CONNECTING at t connects at   *)
(* t+1, sends its request at t+2 and reads the status at t+3: the success  *)
(* has latency 3 and lastSuccessfulConnectionTime = t+3; the cursor still  *)
(* points at the target probed, and moves to the next one in the pass      *)
(* after the success, which does not touch the last success time.          *)
C14_ReadsAfterThree ==
  [][/\ \A t \in Time :
          PromptSuccess(t)
          => /\ pass'.nowP = UAdd(t, 3)
             /\ pass'.duration = 3
             /\ lastSuccessfulConnectionTime' = UAdd(t, 3)
             /\ pingState' = PING_DONE
             /\ currentTargetIndex' = currentTargetIndex
     /\ (pingState = PING_SENDING /\ hist.uniform)
          => (pingState' = PING_READING /\ ~pass'.succeeded)
     /\ (pingState = PING_DONE /\ pass.succeeded)
          => /\ pingState' = PING_IDLE
             /\ currentTargetIndex' = (currentTargetIndex + 1) % numTargets
             /\ lastSuccessfulConnectionTime' = lastSuccessfulConnectionTime]_vars

(* the first target has been probed with success in three units and the    *)
(* cursor is at the second target, one unit after the success              *)
C14_Witness ==
  /\ pingState = PING_IDLE
  /\ hist.completed = 1
  /\ currentTargetIndex = 1
  /\ lastSuccessfulConnectionTime = UAdd(pingTransactionStartTime, 3)
  /\ pingStateStartTime = UAdd(pingTransactionStartTime, 4)
  /\ clock = pingStateStartTime

(* C15: with the last success at 0, one pass per time unit and no success  *)
(* since, the failure signal begins at FAILURE_THRESHOLD and the cooldown  *)
(* at FAILURE_THRESHOLD + FAILURE_SIGNAL_DURATION; a success that lands at *)
(* a time t within the cooldown, in a pass of that same run, returns the   *)
(* state to STATE_NORMAL in that pass and the outage reported is t.        *)
C15_OutageScenario ==
  [][(/\ hist.uniform
      /\ lastSuccessfulConnectionTime = 0
      /\ pass'.succeeded
      /\ pass'.nowS = UAdd(clock, 1)
      /\ pass'.nowH = pass'.nowS
      /\ pass'.nowH >= FAILURE_THRESHOLD + FAILURE_SIGNAL_DURATION
      /\ pass'.nowH < FAILURE_THRESHOLD + FAILURE_SIGNAL_DURATION
                        + FAILURE_COOLDOWN_DURATION)
     => /\ failureStateStartTime = FAILURE_THRESHOLD
        /\ cooldownStateStartTime' = FAILURE_THRESHOLD + FAILURE_SIGNAL_DURATION
        /\ pass'.afterSupervisor = STATE_COOLDOWN
        /\ pass'.recovered
        /\ currentState' = STATE_NORMAL
        /\ pinFailureState' = LOW
        /\ pass'.outageDuration = pass'.nowH
        /\ lastSuccessfulConnectionTime' = pass'.nowH]_vars

(* a success has landed inside the cooldown of the first outage *)
C15_Witness ==
  /\ pass.recovered
  /\ pass.afterSupervisor = STATE_COOLDOWN
  /\ currentState = STATE_NORMAL
  /\ failureStateStartTime = FAILURE_THRESHOLD
  /\ cooldownStateStartTime = FAILURE_THRESHOLD + FAILURE_SIGNAL_DURATION
  /\ pass.nowH > cooldownStateStartTime
  /\ pass.outageDuration = pass.nowH
  /\ lastSuccessfulConnectionTime = pass.nowH

(* C16: a pass that finds the prober in PING_CONNECTING and gets no        *)
(* connection moves it to PING_DONE exactly when HTTP_TIMEOUT has elapsed   *)
(* since the attempt started, and otherwise leaves it in PING_CONNECTING;  *)
(* the timeout closes the connection, prints a failure, leaves the last    *)
(* success time and the cursor alone; the pass after it advances the       *)
(* cursor by one.                                                          *)
C16_ConnectTimeout ==
  [][/\ (pingState = PING_CONNECTING /\ pingState' # PING_SENDING)
        => /\ pingStateStartTime = pingTransactionStartTime
           /\ pingState' = PING_DONE
              <=> USub(pass'.nowP, pingTransactionStartTime) >= HTTP_TIMEOUT
           /\ pingState' # PING_DONE
              => (pingState' = PING_CONNECTING /\ pass'.failure = NO_FAILURE)
           /\ pingState' = PING_DONE
              => /\ pass'.failure = CONNECT_TIMEOUT
                 /\ ~clientOpen'
                 /\ ~pass'.succeeded
                 /\ lastSuccessfulConnectionTime' = lastSuccessfulConnectionTime
                 /\ currentTargetIndex' = currentTargetIndex
     /\ (pingState = PING_DONE /\ pass.failure = CONNECT_TIMEOUT)
        => /\ pingState' = PING_IDLE
           /\ currentTargetIndex' = (currentTargetIndex + 1) % numTargets
           /\ lastSuccessfulConnectionTime' = lastSuccessfulConnectionTime]_vars

(* an attempt has timed out in PING_CONNECTING exactly HTTP_TIMEOUT after  *)
(* its start, having been polled without a connection in between          *)
C16_Witness ==
  /\ pingState = PING_DONE
  /\ pass.failure = CONNECT_TIMEOUT
  /\ pass.nowP = UAdd(pingTransactionStartTime, HTTP_TIMEOUT)
  /\ pingStateStartTime = pass.nowP
  /\ hist.uniform
  /\ ~clientOpen

(* C18: a pass in which a probe ends in failure, by whichever of the three *)
(* routes, leaves the system state, the failure timers and the failure     *)
(* pins as manageSystemState left them in that pass, the last success time *)
(* and the recovery pulse start as they were, and the recovery pulse as    *)
(* manageRecoveryPulse alone makes it; the effect does not depend on the   *)
(* route.                                                                  *)
C18_FailureFrame ==
  [][pass'.failure \in {CONNECT_TIMEOUT, RESPONSE_TIMEOUT, BAD_STATUS}
     => LET s1 == manageSystemState(State, pass'.nowS)
            s3 == manageRecoveryPulse(s1, pass'.nowR)
        IN /\ ~pass'.succeeded
           /\ pingState' = PING_DONE
           /\ currentState' = s1.currentState
           /\ lastSuccessfulConnectionTime' = lastSuccessfulConnectionTime
           /\ failureStateStartTime' = s1.failureStateStartTime
           /\ cooldownStateStartTime' = s1.cooldownStateStartTime
           /\ pinFailureState' = s1.pinFailureState
           /\ pinFailureSignal' = s1.pinFailureSignal
           /\ recoveryPulseStartTime' = recoveryPulseStartTime
           /\ recoveryPulseActive' = s3.recoveryPulseActive
           /\ pinRecoverySignal' = s3.pinRecoverySignal]_vars

(* a server has answered with a status that is not 2xx/3xx during the      *)
(* failure signal, and the signal goes on                                  *)
C18_Witness ==
  /\ pass.failure = BAD_STATUS
  /\ pass.afterSupervisor = STATE_FAILED_SIGNAL
  /\ currentState = STATE_FAILED_SIGNAL
  /\ pinFailureSignal = HIGH
  /\ lastSuccessfulConnectionTime # pass.nowP

(* C19 as stated: an idle prober whose previous attempt started at least   *)
(* PING_INTERVAL ago starts a new attempt in every pass that does not      *)
(* leave manageSystemState in STATE_FAILED_SIGNAL.                         *)
C19_FromAttemptStart ==
  [][(/\ phase = "loop"
      /\ pingState = PING_IDLE
      /\ hist.completed > 0
      /\ pass'.afterSupervisor # STATE_FAILED_SIGNAL
      /\ USub(pass'.nowP, pingTransactionStartTime) >= PING_INTERVAL)
     => pingState' = PING_CONNECTING]_vars

(* C19 amended: the interval runs from the completion of the previous      *)
(* attempt.  The PING_DONE pass stamps pingStateStartTime; an idle prober  *)
(* starts a new attempt in the first pass in which the system state is not *)
(* STATE_FAILED_SIGNAL and PING_INTERVAL has elapsed since that stamp, and *)
(* in no earlier pass, however long ago the previous attempt started.      *)
C19_FromCompletion ==
  [][/\ pingState = PING_DONE
        => (pingState' = PING_IDLE /\ pingStateStartTime' = pass'.nowP)
     /\ (phase = "loop" /\ pingState = PING_IDLE)
        => /\ pingState' = PING_CONNECTING
              <=> /\ pass'.afterSupervisor # STATE_FAILED_SIGNAL
                  /\ USub(pass'.nowP, pingStateStartTime) >= PING_INTERVAL
           /\ pingState' = PING_CONNECTING
              => /\ pingTransactionStartTime' = pass'.nowP
                 /\ pingStateStartTime' = pass'.nowP
           /\ pingState' # PING_CONNECTING
              => /\ pingState' = PING_IDLE
                 /\ pingStateStartTime' = pingStateStartTime
                 /\ pingTransactionStartTime' = pingTransactionStartTime]_vars

(* the previous attempt started PING_INTERVAL ago or more, the system is   *)
(* not signalling a failure, and the pass has left the prober idle         *)
C19_Witness ==
  /\ pingState = PING_IDLE
  /\ hist.completed > 0
  /\ pass.nowP = clock
  /\ pass.afterSupervisor = STATE_NORMAL
  /\ USub(clock, pingStateStartTime) > 0
  /\ USub(clock, pingStateStartTime) < PING_INTERVAL
  /\ USub(clock, pingTransactionStartTime) >= PING_INTERVAL
  /\ pingStateStartTime # pingTransactionStartTime

(* C20: when the cooldown has timed out and no probe has succeeded since   *)
(* the failure signal was entered, the next pass enters                    *)
(* STATE_FAILED_SIGNAL again, however long the outage has lasted.          *)
C20_ReentersAtOnce ==
  [][(/\ phase = "loop"
      /\ currentState = STATE_NORMAL
      /\ hist.outageOpen)
     => /\ pass'.afterSupervisor = STATE_FAILED_SIGNAL
        /\ failureStateStartTime' = pass'.nowS
        /\ pinFailureState' = HIGH]_vars

(* C21: a pass of loop() makes at most one step of the prober, along       *)
(* IDLE -> CONNECTING, CONNECTING -> SENDING, CONNECTING -> DONE,          *)
(* SENDING -> READING, READING -> DONE or DONE -> IDLE and no other;       *)
(* PING_SENDING and PING_DONE are left by the pass that finds them; a      *)
(* pass that finds no connection, or no response bytes, before the timeout *)
(* returns with the state and its timer as they were.                      *)
C21_PhaseGraph ==
  [][phase = "loop"
     => /\ <<pingState, pingState'>> \in
             { <<PING_IDLE, PING_IDLE>>, <<PING_IDLE, PING_CONNECTING>>,
               <<PING_CONNECTING, PING_CONNECTING>>,
               <<PING_CONNECTING, PING_SENDING>>,
               <<PING_CONNECTING, PING_DONE>>,
               <<PING_SENDING, PING_READING>>,
               <<PING_READING, PING_READING>>,
               <<PING_READING, PING_DONE>>,
               <<PING_DONE, PING_IDLE>> }
        /\ (pingState' = pingState /\ pingState # PING_IDLE)
           => /\ pingState \in {PING_CONNECTING, PING_READING}
              /\ USub(pass'.nowP, pingStateStartTime) < HTTP_TIMEOUT
              /\ pingStateStartTime' = pingStateStartTime
              /\ pass'.failure = NO_FAILURE
              /\ ~pass'.succeeded
        /\ pingState' # pingState
           => pingStateStartTime' = pass'.nowP]_vars

(* a connection has been established after a pass spent waiting in         *)
(* PING_CONNECTING (one pass per time unit): the request is still to be    *)
(* sent                                                                    *)
C21_Witness ==
  /\ pingState = PING_SENDING
  /\ clientOpen
  /\ pingStateStartTime = UAdd(pingTransactionStartTime, HTTP_TIMEOUT)
  /\ pass.nowP = pingStateStartTime
  /\ hist.uniform

(* C22: while loop() keeps being called and millis() keeps advancing, an   *)
(* attempt that has left PING_IDLE reaches PING_DONE and from there        *)
(* PING_IDLE, whatever connect() and available() return; PING_DONE is      *)
(* entered only with a response or with a timeout that has elapsed, and    *)
(* PING_IDLE only from PING_DONE, with the connection closed and the       *)
(* cursor advanced; the attempt is in flight for at most twice             *)
(* HTTP_TIMEOUT and three periods of the loop.                             *)
C22_Terminates ==
  /\ (pingState \in {PING_CONNECTING, PING_SENDING, PING_READING})
       ~> (pingState = PING_DONE)
  /\ (pingState = PING_DONE) ~> (pingState = PING_IDLE)
  /\ [][phase = "loop"
        => /\ (pingState # PING_DONE /\ pingState' = PING_DONE)
              => \/ pass'.succeeded
                 \/ pass'.failure = BAD_STATUS
                 \/ /\ pass'.failure \in {CONNECT_TIMEOUT, RESPONSE_TIMEOUT}
                    /\ USub(pass'.nowP, pingStateStartTime) >= HTTP_TIMEOUT
           /\ (pingState # PING_IDLE /\ pingState' = PING_IDLE)
              => /\ pingState = PING_DONE
                 /\ ~clientOpen'
                 /\ currentTargetIndex' = (currentTargetIndex + 1) % numTargets
                 /\ USub(pass'.nowP, pingTransactionStartTime)
                      <= 2 * HTTP_TIMEOUT + 3 * MaxAdvance]_vars
  /\ [](pingState # PING_IDLE
        => USub(clock, pingTransactionStartTime)
             <= 2 * HTTP_TIMEOUT + 3 * MaxAdvance)

(* an attempt that never got a connection has been abandoned and has       *)
(* returned to PING_IDLE, in a run followed across the wrap of millis()    *)
C22_Witness ==
  /\ ~hist.open
  /\ pingState = PING_IDLE
  /\ pass.nowP = pingStateStartTime
  /\ ~clientOpen
  /\ ~pingingPulseActive
  /\ pingTransactionStartTime = MILLIS_MOD - 1
  /\ USub(pingStateStartTime, pingTransactionStartTime) = HTTP_TIMEOUT + 1

(* C23: PING_READING is entered by the pass that sends the request, which  *)
(* stamps pingStateStartTime.  A pass that finds the prober in             *)
(* PING_READING goes to PING_DONE when a response is read, whatever time   *)
(* has elapsed; without a response it goes to PING_DONE exactly when       *)
(* HTTP_TIMEOUT has elapsed since that stamp, prints the response timeout, *)
(* counts no success and leaves the last success time alone, and           *)
(* otherwise stays in PING_READING.                                        *)
C23_Reading ==
  [][/\ pingState = PING_SENDING
        => (pingState' = PING_READING /\ pingStateStartTime' = pass'.nowP)
     /\ pingState = PING_READING
        => LET waited == USub(pass'.nowP, pingStateStartTime)
               answered == pass'.succeeded \/ pass'.failure = BAD_STATUS
           IN /\ answered => pingState' = PING_DONE
              /\ ~answered
                 => /\ pingState' = PING_DONE <=> waited >= HTTP_TIMEOUT
                    /\ pingState' = PING_DONE
                       => /\ pass'.failure = RESPONSE_TIMEOUT
                          /\ ~pass'.recovered
                          /\ lastSuccessfulConnectionTime'
                               = lastSuccessfulConnectionTime
                    /\ pingState' # PING_DONE
                       => /\ pingState' = PING_READING
                          /\ pass'.failure = NO_FAILURE
              /\ pass'.failure = RESPONSE_TIMEOUT
                 => (~pass'.succeeded /\ waited >= HTTP_TIMEOUT)]_vars

(* a 2xx/3xx response has been read in a pass in which the response        *)
(* timeout had elapsed: the attempt had been under way for twice           *)
(* HTTP_TIMEOUT and the two passes of PING_SENDING and PING_READING, so    *)
(* that PING_READING was entered HTTP_TIMEOUT before at the latest         *)
C23_Witness ==
  /\ pingState = PING_DONE
  /\ pass.succeeded
  /\ pass.failure = NO_FAILURE
  /\ pass.duration = 2 * HTTP_TIMEOUT + 1
  /\ pass.nowP = UAdd(pingTransactionStartTime, pass.duration)
  /\ lastSuccessfulConnectionTime = pass.nowP

(* C24: pingTransactionStartTime is written by the pass that takes the     *)
(* prober from PING_IDLE to PING_CONNECTING, with the time that pass read, *)
(* and by no other pass; a success is reported only by a pass that finds   *)
(* the prober in PING_READING, and the response time it reports is the     *)
(* time that pass read minus pingTransactionStartTime.                     *)
C24_Latency ==
  [][phase = "loop"
     => /\ IF pingState = PING_IDLE /\ pingState' = PING_CONNECTING
           THEN pingTransactionStartTime' = pass'.nowP
           ELSE pingTransactionStartTime' = pingTransactionStartTime
        /\ pass'.succeeded
           => /\ pingState = PING_READING
              /\ pass'.duration = USub(pass'.nowP, pingTransactionStartTime)
        /\ ~pass'.succeeded => pass'.duration = NONE]_vars

(* a response has been read HTTP_TIMEOUT + 1 after the attempt started.    *)
(* With passes one time unit apart at most the prober is in PING_READING   *)
(* for HTTP_TIMEOUT at most: the response time reported is longer          *)
C24_Witness ==
  /\ pingState = PING_DONE
  /\ pass.succeeded
  /\ pass.duration = HTTP_TIMEOUT + 1
  /\ pass.nowP = UAdd(pingTransactionStartTime, HTTP_TIMEOUT + 1)
  /\ pingStateStartTime = pass.nowP
  /\ pass.nowH = pass.nowP
  /\ ~pass.recovered

(* C25 as stated: every comparison and every timestamp stored in a pass    *)
(* uses one value of millis(); on a recovery the time read by              *)
(* managePingProcess, the last success time and the start of the recovery  *)
(* pulse are equal.                                                        *)
C25_SingleClock ==
  [][phase = "loop"
     => /\ pass'.nowP = pass'.nowS
        /\ pass'.nowR = pass'.nowS
        /\ clock' = pass'.nowS
        /\ pass'.recovered
           => /\ pass'.nowH = pass'.nowP
              /\ lastSuccessfulConnectionTime' = pass'.nowP
              /\ recoveryPulseStartTime' = pass'.nowP]_vars

(* C25 amended: the tasks run in the order manageSystemState,              *)
(* managePingProcess, manageRecoveryPulse, managePingingPulse, and each    *)
(* reads millis() for itself, handleSuccess once more: the reads of a pass *)
(* do not decrease in that order, the state that managePingProcess tests   *)
(* is the one manageSystemState has left, every timestamp stored is the    *)
(* read of the task that stores it, and on a recovery the last success     *)
(* time and the start of the recovery pulse are both the read of           *)
(* handleSuccess, while the prober's timer and the response time come from *)
(* the read of managePingProcess.                                          *)
C25_OwnClock ==
  [][phase = "loop"
     => LET s1 == manageSystemState(State, pass'.nowS)
            late == USub(clock', pass'.nowS)
        IN /\ USub(pass'.nowP, pass'.nowS) <= USub(pass'.nowR, pass'.nowS)
           /\ USub(pass'.nowR, pass'.nowS) <= late
           /\ late <= MaxDrift + 1
           /\ pass'.succeeded
              => /\ USub(pass'.nowP, pass'.nowS) <= USub(pass'.nowH, pass'.nowS)
                 /\ USub(pass'.nowH, pass'.nowS) <= USub(pass'.nowR, pass'.nowS)
           /\ pass'.afterSupervisor = s1.currentState
           /\ failureStateStartTime' = s1.failureStateStartTime
           /\ failureStateStartTime' \in {failureStateStartTime, pass'.nowS}
           /\ cooldownStateStartTime' = s1.cooldownStateStartTime
           /\ cooldownStateStartTime' \in {cooldownStateStartTime, pass'.nowS}
           /\ (pingState = PING_IDLE /\ pingState' = PING_CONNECTING)
              <=> (pingState = PING_IDLE /\ pingDue(s1, pass'.nowP))
           /\ pingStateStartTime' \in {pingStateStartTime, pass'.nowP}
           /\ pingTransactionStartTime' \in {pingTransactionStartTime, pass'.nowP}
           /\ pingingPulseStartTime' \in {pingingPulseStartTime, pass'.nowP}
           /\ pass'.recovered <=> (pass'.succeeded /\ s1.currentState # STATE_NORMAL)
           /\ pass'.succeeded
              => /\ lastSuccessfulConnectionTime' = pass'.nowH
                 /\ pingStateStartTime' = pass'.nowP
                 /\ pass'.duration = USub(pass'.nowP, pingTransactionStartTime)
           /\ ~pass'.succeeded
              => lastSuccessfulConnectionTime' = lastSuccessfulConnectionTime
           /\ IF pass'.recovered
              THEN /\ recoveryPulseStartTime' = pass'.nowH
                   /\ pass'.outageDuration
                        = USub(pass'.nowH, lastSuccessfulConnectionTime)
              ELSE recoveryPulseStartTime' = recoveryPulseStartTime
           /\ pinRecoverySignal' = HIGH
              <=> /\ pinRecoverySignal = HIGH \/ pass'.recovered
                  /\ USub(pass'.nowR, recoveryPulseStartTime')
                       < RECOVERY_PULSE_DURATION
           /\ pinPinging' = HIGH
              <=> /\ \/ pinPinging = HIGH
                     \/ (pingState = PING_IDLE /\ pingState' = PING_CONNECTING)
                  /\ USub(clock', pingingPulseStartTime')
                       < PINGING_PULSE_DURATION]_vars

(* a recovery in a pass in which millis() ticked over between the read of  *)
(* managePingProcess and the read of handleSuccess                         *)
C25_Witness ==
  /\ pass.recovered
  /\ pass.afterSupervisor # STATE_NORMAL
  /\ pass.nowP = pass.nowS
  /\ pass.nowH = UAdd(pass.nowP, 1)
  /\ lastSuccessfulConnectionTime = pass.nowH
  /\ recoveryPulseStartTime = pass.nowH
  /\ pingStateStartTime = pass.nowP
  /\ currentState = STATE_NORMAL

(* C26: the pinging pulse is armed by the pass that takes the prober from  *)
(* PING_IDLE to PING_CONNECTING, with the time that pass read, and the     *)
(* prober touches it in no other pass: apart from that, the flag, the      *)
(* start time and the pin change only when managePingingPulse ends the     *)
(* pulse, PINGING_PULSE_DURATION after its start, whether or not the       *)
(* attempt has completed by then.                                          *)
C26_PingPulse ==
  [][phase = "loop"
     => LET armed == pingState = PING_IDLE /\ pingState' = PING_CONNECTING
        IN /\ pingingPulseStartTime'
                = IF armed THEN pass'.nowP ELSE pingingPulseStartTime
           /\ pingingPulseActive'
                <=> /\ armed \/ pingingPulseActive
                    /\ USub(clock', pingingPulseStartTime')
                         < PINGING_PULSE_DURATION
           /\ (pinPinging' = HIGH) <=> pingingPulseActive']_vars

(* an attempt has gone through PING_DONE back to PING_IDLE before its      *)
(* pinging pulse has run out: the pin is still HIGH                        *)
C26_Witness ==
  /\ pingState = PING_IDLE
  /\ hist.completed > 0
  /\ pingStateStartTime = pass.nowP
  /\ clock = pass.nowP
  /\ pingingPulseStartTime = pingTransactionStartTime
  /\ USub(clock, pingingPulseStartTime) < PINGING_PULSE_DURATION
  /\ pingingPulseActive
  /\ pinPinging = HIGH
  /\ ~clientOpen

(* C27: the failure-signal pin goes HIGH only in manageSystemState, which  *)
(* stamps failureStateStartTime with the time it read; a pass leaves the   *)
(* pin HIGH only if manageSystemState read a time less than                *)
(* FAILURE_SIGNAL_DURATION after that stamp, whatever the probe did in     *)
(* between, so that the pass which lowers it comes no later than           *)
(* FAILURE_SIGNAL_DURATION and one period of the loop after the pin went   *)
(* HIGH.                                                                   *)
C27_BoundedPulse ==
  [][phase = "loop"
     => /\ (pinFailureSignal = LOW /\ pinFailureSignal' = HIGH)
           => failureStateStartTime' = pass'.nowS
        /\ (pinFailureSignal = HIGH /\ pinFailureSignal' = HIGH)
           => /\ failureStateStartTime' = failureStateStartTime
              /\ USub(pass'.nowS, failureStateStartTime)
                   < FAILURE_SIGNAL_DURATION
        /\ pinFailureSignal = HIGH
           => USub(pass'.nowS, failureStateStartTime)
                <= FAILURE_SIGNAL_DURATION + MaxAdvance + MaxDrift]_vars

(* the pin has been lowered FAILURE_SIGNAL_DURATION after it went HIGH, in *)
(* a pass in which a server answered with a status that is not 2xx/3xx     *)
C27_Witness ==
  /\ pinFailureSignal = LOW
  /\ pinFailureState = HIGH
  /\ pass.afterSupervisor = STATE_COOLDOWN
  /\ cooldownStateStartTime = pass.nowS
  /\ pass.nowS = UAdd(failureStateStartTime, FAILURE_SIGNAL_DURATION)
  /\ pass.failure = BAD_STATUS

(* C28: STATE_FAILED_SIGNAL is entered from STATE_NORMAL only, by          *)
(* manageSystemState, never in a pass that begins in STATE_COOLDOWN; and   *)
(* when it has been entered before, the time manageSystemState reads at    *)
(* the new entry is at least FAILURE_THRESHOLD, or at least                *)
(* FAILURE_SIGNAL_DURATION + FAILURE_COOLDOWN_DURATION if that is less,    *)
(* after the time stamped at the previous entry, whatever the probes       *)
(* returned in between.                                                    *)
C28_Grace ==
  [][phase = "loop"
     => LET cycle == FAILURE_SIGNAL_DURATION + FAILURE_COOLDOWN_DURATION
            grace == IF FAILURE_THRESHOLD < cycle
                     THEN FAILURE_THRESHOLD ELSE cycle
        IN /\ currentState = STATE_COOLDOWN
              => /\ pass'.afterSupervisor # STATE_FAILED_SIGNAL
                 /\ currentState' # STATE_FAILED_SIGNAL
           /\ currentState' = STATE_FAILED_SIGNAL
              => pass'.afterSupervisor = STATE_FAILED_SIGNAL
           /\ (currentState # STATE_FAILED_SIGNAL
               /\ pass'.afterSupervisor = STATE_FAILED_SIGNAL)
              => /\ currentState = STATE_NORMAL
                 /\ hist.signalled
                    => USub(pass'.nowS, failureStateStartTime) >= grace]_vars

(* the failure signal has been entered for the second time,                *)
(* FAILURE_THRESHOLD after the success that ended the first outage         *)
C28_Witness ==
  /\ hist.signalled
  /\ currentState = STATE_FAILED_SIGNAL
  /\ pinFailureSignal = HIGH
  /\ failureStateStartTime = pass.nowS
  /\ lastSuccessfulConnectionTime # 0
  /\ recoveryPulseStartTime = lastSuccessfulConnectionTime
  /\ failureStateStartTime
       = UAdd(lastSuccessfulConnectionTime, FAILURE_THRESHOLD)

(* C29: from the end of one pass to the end of the next the system state   *)
(* stays as it is or changes from STATE_NORMAL to STATE_FAILED_SIGNAL,     *)
(* from STATE_FAILED_SIGNAL to STATE_COOLDOWN or to STATE_NORMAL, or from  *)
(* STATE_COOLDOWN to STATE_NORMAL; it changes from STATE_FAILED_SIGNAL to  *)
(* STATE_NORMAL only in a pass in which a probe succeeded and a recovery   *)
(* was reported.                                                           *)
C29_StateGraph ==
  [][phase = "loop"
     => /\ <<currentState, currentState'>> \in
             { <<STATE_NORMAL, STATE_NORMAL>>,
               <<STATE_NORMAL, STATE_FAILED_SIGNAL>>,
               <<STATE_FAILED_SIGNAL, STATE_FAILED_SIGNAL>>,
               <<STATE_FAILED_SIGNAL, STATE_COOLDOWN>>,
               <<STATE_FAILED_SIGNAL, STATE_NORMAL>>,
               <<STATE_COOLDOWN, STATE_COOLDOWN>>,
               <<STATE_COOLDOWN, STATE_NORMAL>> }
        /\ (currentState = STATE_FAILED_SIGNAL /\ currentState' = STATE_NORMAL)
           => (pass'.succeeded /\ pass'.recovered)
        /\ (currentState = STATE_COOLDOWN /\ currentState' = STATE_NORMAL)
           => \/ pass'.recovered
              \/ /\ pass'.afterSupervisor = STATE_NORMAL
                 /\ USub(pass'.nowS, cooldownStateStartTime)
                      >= FAILURE_COOLDOWN_DURATION]_vars

(* a pass that began in STATE_FAILED_SIGNAL has ended in STATE_NORMAL: the *)
(* signal had run out, manageSystemState went to STATE_COOLDOWN, and the   *)
(* response to the probe in flight was read in the same pass               *)
C29_Witness ==
  /\ currentState = STATE_NORMAL
  /\ pass.afterSupervisor = STATE_COOLDOWN
  /\ cooldownStateStartTime = pass.nowS
  /\ pass.nowS = UAdd(failureStateStartTime, FAILURE_SIGNAL_DURATION)
  /\ pass.recovered
  /\ pinFailureState = LOW
  /\ pinRecoverySignal = HIGH

(* C30: a pass in which manageSystemState enters STATE_FAILED_SIGNAL ends  *)
(* in STATE_FAILED_SIGNAL with the failure-state pin and the               *)
(* failure-signal pin HIGH, also when the probe in flight completes in     *)
(* that pass: the pins are not driven HIGH and LOW again within one pass.  *)
C30_GlitchFree ==
  [][(/\ phase = "loop"
      /\ currentState = STATE_NORMAL
      /\ pass'.afterSupervisor = STATE_FAILED_SIGNAL)
     => /\ currentState' = STATE_FAILED_SIGNAL
        /\ pinFailureState' = HIGH
        /\ pinFailureSignal' = HIGH]_vars

(* C31: while the system state is not STATE_NORMAL, at least               *)
(* FAILURE_THRESHOLD has passed since the last success time was stamped;   *)
(* a recovery is reported only by a pass in which manageSystemState has    *)
(* left STATE_FAILED_SIGNAL or STATE_COOLDOWN, and when less than a period *)
(* of millis() has passed since that stamp the outage duration it reports  *)
(* is the time passed since the stamp, FAILURE_THRESHOLD at least.         *)
C31_OutageAtLeastThreshold ==
  [][phase = "loop"
     => /\ currentState # STATE_NORMAL
           => hist.sinceSuccess >= FAILURE_THRESHOLD
        /\ pass'.recovered
           => LET outage == hist.sinceSuccess + USub(pass'.nowH, clock)
              IN /\ pass'.afterSupervisor # STATE_NORMAL
                 /\ pass'.succeeded
                 /\ outage < MILLIS_MOD
                    => /\ pass'.outageDuration = outage
                       /\ pass'.outageDuration >= FAILURE_THRESHOLD
        /\ ~pass'.recovered => pass'.outageDuration = NONE]_vars

(* a probe started in the cooldown has succeeded: the outage reported      *)
(* covers the threshold, the failure signal and the time in the cooldown   *)
C31_Witness ==
  /\ pass.recovered
  /\ pass.afterSupervisor = STATE_COOLDOWN
  /\ pass.outageDuration
       = FAILURE_THRESHOLD + FAILURE_SIGNAL_DURATION + 1
  /\ cooldownStateStartTime
       = UAdd(failureStateStartTime, FAILURE_SIGNAL_DURATION)
  /\ lastSuccessfulConnectionTime = UAdd(cooldownStateStartTime, 1)
  /\ hist.sinceSuccess = 0
  /\ currentState = STATE_NORMAL

(* C32: setup() leaves the ping timer PING_INTERVAL before the time it     *)
(* read, modulo the period of millis(); the first pass of loop() after it  *)
(* finds the system in STATE_NORMAL and starts an attempt, whatever        *)
(* millis() was, less than PING_INTERVAL included; and                     *)
(* STATE_FAILED_SIGNAL is entered only when FAILURE_THRESHOLD has passed   *)
(* since setup() stamped the last success time, or since a later success.  *)
C32_Startup ==
  [][/\ phase = "setup"
        => /\ pingStateStartTime' = USub(clock', PING_INTERVAL)
           /\ USub(clock', pingStateStartTime') = PING_INTERVAL
           /\ USub(clock', lastSuccessfulConnectionTime') = hist'.sinceSuccess
           /\ currentState' = STATE_NORMAL
           /\ pingState' = PING_IDLE
     /\ (phase = "loop" /\ pass.nowS = NONE)
        => /\ pass'.afterSupervisor = STATE_NORMAL
           /\ pingState' = PING_CONNECTING
           /\ pingTransactionStartTime' = pass'.nowP
           /\ pingStateStartTime' = pass'.nowP
           /\ pingingPulseStartTime' = pass'.nowP
     /\ (phase = "loop"
         /\ currentState = STATE_NORMAL
         /\ pass'.afterSupervisor = STATE_FAILED_SIGNAL)
        => hist.sinceSuccess + USub(pass'.nowS, clock) >= FAILURE_THRESHOLD]_vars

(* setup() returned with millis() less than PING_INTERVAL, the ping timer  *)
(* wrapped below 0, and the first pass has started the first attempt       *)
C32_Witness ==
  /\ pingState = PING_CONNECTING
  /\ hist.completed = 0
  /\ hist.elapsed = 0
  /\ clock # 0
  /\ clock < PING_INTERVAL
  /\ lastSuccessfulConnectionTime = clock
  /\ pingTransactionStartTime = clock
  /\ pass.nowP = clock
  /\ pinPinging = HIGH
  /\ currentState = STATE_NORMAL

(* C33: in the two-pin revision, a pass that reads a 2xx/3xx response      *)
(* hands handleSuccess the time passed since the attempt left PING_IDLE,   *)
(* whatever the cooldown timer and the ping timer hold.                    *)
C33_TotalRequestTime ==
  [][(phase = "loop" /\ pingState = PING_READING /\ pass'.succeeded)
     => totalRequestTime(State, pass'.nowP)
          = USub(pass'.nowP, pingTransactionStartTime)]_vars

====
